---- MODULE Spec2Model ----
\* A model of the SCIP2.0 lidar driver of src/gohokuyolidar.go: the session
\* (HokuyoLidar), its command operations and the serial transport they use.
\* Bytes are their ASCII codes, byte strings are sequences of bytes.
EXTENDS Integers, Sequences, FiniteSets, TLC

\* ------------------------------------------------------------------ bounds
\* longest trailing string a caller passes
MaxChars == 2
\* largest number of 66-byte payload lines the device sends in one scripted scan
MaxChunks == 2
\* the latest transport read of one operation that a fault is injected into
MaxFailAt == 5
\* length of the longest trailing string a caller passes
MaxTrailing == 17
\* widest field zeroPadString is asked for, longest run of one digit it is given
MaxWidth == 8
MaxRun == 9
\* largest digit of the two characters of a status code handed to statusCheck
MaxDigit == 9

\* --------------------------------------------------------- program constants
lf == 10
mTag == 77
bTag == 66
qTag == 81
tTag == 84
rTag == 82
sTag == 83
cTag == 67
hTag == 72
gTag == 71
pTag == 86
iTag == 73
vTag == 86
threeEncoding == 68
twoEncoding == 83
AMIN == 44
AMAX == 725

\* ------------------------------------------------------------ byte helpers
Min(a, b) == IF a < b THEN a ELSE b

Rep(b, n) == [i \in 1..n |-> b]

\* Go's s[a:b] on a slice whose length equals its capacity (make([]byte, n),
\* a nil slice): legal exactly when 0 <= a <= b <= len(s)
SliceOK(s, a, b) == 0 <= a /\ a <= b /\ b <= Len(s)

Slice(s, a, b) == SubSeq(s, a + 1, b)

\* the bytes of a two-character code
Code(a, b) == <<48 + a, 48 + b>>

\* ----------------------------------------------------------------- errors
ErrNil == [kind |-> "nil", code |-> <<>>, msg |-> ""]

Err(kind, msg) == [kind |-> kind, code |-> <<>>, msg |-> msg]

healthStatus ==
  (Code(0, 0) :> "Command received without any Error") @@
  (Code(0, 1) :> "Starting Step has non-numeric value") @@
  (Code(0, 2) :> "End Step has non-numeric value") @@
  (Code(0, 3) :> "Cluster Count has non-numeric value") @@
  (Code(0, 4) :> "End Step is out of range") @@
  (Code(0, 5) :> "End Step is smaller than Starting Step") @@
  (Code(0, 6) :> "Scan Interval has non-numeric value") @@
  (Code(0, 7) :> "Number of Scan has non-numeric value") @@
  (Code(9, 8) :> "Resumption of process after confirming normal laser operation")

\* statusCheck that looks the code up in the table before anything else
statusCheckTableFirst(code) ==
  IF code \in DOMAIN healthStatus
    THEN [kind |-> "known", code |-> code, msg |-> healthStatus[code]]
    ELSE IF code = Code(0, 0) \/ code = Code(9, 9)
      THEN ErrNil
      ELSE [kind |-> "unknown", code |-> code, msg |-> ""]

statusCheck(code) ==
  IF code = Code(0, 0) \/ code = Code(9, 9)
    THEN ErrNil
    ELSE IF code \in DOMAIN healthStatus
      THEN [kind |-> "known", code |-> code, msg |-> healthStatus[code]]
      ELSE [kind |-> "unknown", code |-> code, msg |-> ""]

\* ---------------------------------------------------------- numeric codec
RECURSIVE Itoa(_)
Itoa(n) == IF n < 10 THEN <<48 + n>> ELSE Append(Itoa(n \div 10), 48 + (n % 10))

\* zeroPadString that appends the zeros
zeroPadRight(desiredLen, str) ==
  IF Len(str) > desiredLen
    THEN SubSeq(str, 1, desiredLen)
    ELSE str \o Rep(48, desiredLen - Len(str))

zeroPadString(desiredLen, str) ==
  IF Len(str) > desiredLen
    THEN SubSeq(str, 1, desiredLen)
    ELSE Rep(48, desiredLen - Len(str)) \o str

\* bitwise or of two values below 4
Or2(a, b) ==
  (IF a % 2 = 1 \/ b % 2 = 1 THEN 1 ELSE 0) +
  2 * (IF a \div 2 = 1 \/ b \div 2 = 1 THEN 1 ELSE 0)

\* sh | v for a sh whose low 6 bits are zero and a byte v
OrByte(sh, v) ==
  (sh \div 256) * 256 + Or2((sh \div 64) % 4, v \div 64) * 64 + (v % 64)

\* v is a byte (uint8): v - 0x30 wraps around below 0x30
RECURSIVE decodeFrom(_, _)
decodeFrom(acc, encoded) ==
  IF encoded = <<>>
    THEN acc
    ELSE decodeFrom(OrByte(acc * 64, (Head(encoded) - 48) % 256), Tail(encoded))

\* decode that forgets to take 0x30 off
decodeRaw(encoded) ==
  LET RECURSIVE fold(_, _)
      fold(acc, bytes) ==
        IF bytes = <<>>
          THEN acc
          ELSE fold(OrByte(acc * 64, Head(bytes)), Tail(bytes))
  IN  fold(0, encoded)

decode(encoded) == decodeFrom(0, encoded)

\* ------------------------------------------------------------------ state
VARIABLES
  serialPort,    \* "nil" or "open": the *serial.Port of the session
  Connected,
  startStep, endStep, clusterCount, scanInterval,
  encodingType, headSize, requestTag,
  scanFrame,     \* the frame of the last MDMSCmd or GDGSCommand that returned
                 \* nil (the scan the device runs), <<>> when there was none
  call           \* the last operation: its inputs, its transport traffic, its results

vars == <<serialPort, Connected, startStep, endStep, clusterCount, scanInterval,
          encodingType, headSize, requestTag, scanFrame, call>>

\* the scan operation related data of the session
conf == [startStep |-> startStep, endStep |-> endStep,
         clusterCount |-> clusterCount, scanInterval |-> scanInterval,
         encodingType |-> encodingType, headSize |-> headSize,
         requestTag |-> requestTag]

\* -------------------------------------------------------------- transport
\* The serial port during one operation: buf is what the device delivers,
\* wr the outcome of Write, failAt/failMode a fault injected into the
\* failAt-th Read (0: none); reads and writes log the traffic.
Port(open, buf, wr, failAt, failMode) ==
  [open |-> open, buf |-> buf, wr |-> wr,
   failAt |-> failAt, failMode |-> failMode, reads |-> <<>>, writes |-> <<>>]

\* sendCommandBlock that returns the error of Write only
sendCommandBlockLax(t, req) ==
  IF ~t.open
    THEN [panic |-> TRUE, err |-> ErrNil, t |-> t]
    ELSE LET size == Len(req)
             asize == IF t.wr = "short" THEN size - 1 ELSE size
             t1 == [t EXCEPT !.writes = Append(@, [frame |-> req, n |-> asize,
                                                   reads |-> Len(t.reads)])]
         IN  [panic |-> FALSE, t |-> t1,
              err |-> IF t.wr = "err" THEN Err("write", "port") ELSE ErrNil]

sendCommandBlock(t, req) ==
  IF ~t.open
    THEN [panic |-> TRUE, err |-> ErrNil, t |-> t]
    ELSE LET size == Len(req)
             asize == IF t.wr = "short" THEN size - 1 ELSE size
             t1 == [t EXCEPT !.writes = Append(@, [frame |-> req, n |-> asize,
                                                   reads |-> Len(t.reads)])]
         IN  IF size # asize
               THEN [panic |-> FALSE, t |-> t1,
                     err |-> Err("write", "Failed to send all request bytes")]
               ELSE [panic |-> FALSE, t |-> t1,
                     err |-> IF t.wr = "err" THEN Err("write", "port") ELSE ErrNil]

readFixedResponse(t, size) ==
  IF size < 0 \/ ~t.open
    THEN [panic |-> TRUE, res |-> <<>>, err |-> ErrNil, t |-> t]
    ELSE LET hit == t.failAt = Len(t.reads) + 1
             avail == Min(size, Len(t.buf))
             read == IF hit /\ t.failMode = "short" /\ avail > 0
                       THEN avail - 1 ELSE avail
             bad == read # size \/ (hit /\ t.failMode = "err")
             t1 == [t EXCEPT !.reads = Append(@, [size |-> size, n |-> read,
                                                  ok |-> ~bad]),
                             !.buf = SubSeq(@, read + 1, Len(@))]
         IN  IF read # size
               THEN [panic |-> FALSE, res |-> <<>>, t |-> t1,
                     err |-> Err("short", "Failed to read all expected bytes")]
               ELSE IF hit /\ t.failMode = "err"
                 THEN [panic |-> FALSE, res |-> <<>>, t |-> t1,
                       err |-> Err("read", "Failed to read from serial port")]
                 ELSE [panic |-> FALSE, res |-> SubSeq(t.buf, 1, size), t |-> t1,
                       err |-> ErrNil]

\* the checksum character the device puts after a field
Sum(bytes) == 48 + ((bytes[1] + bytes[2]) % 64)

\* the device's answer to a command: its echo, the status, the sum, LF LF
DeviceReply(cmd, st) == cmd \o st \o <<Sum(st), lf, lf>>

\* ---------------------------------------------------------------- results
\* what an operation hands back: panic (the call never returns), the error,
\* the port after it, the scan configuration it leaves, its other results
Result(t, err) ==
  [panic |-> FALSE, err |-> err, t |-> t, conf |-> conf, started |-> FALSE,
   isNil |-> TRUE, distance |-> <<>>, intensity |-> <<>>, timestamp |-> 0,
   payload |-> 0, time |-> 0, lines |-> <<>>]

Panic(t) == [Result(t, ErrNil) EXCEPT !.panic = TRUE]

\* --------------------------------------------------------------- commands
scipTwoCmd(t) ==
  LET cmd == <<83, 67, 73, 80, 50, 46, 48, lf>>
      w == sendCommandBlock(t, cmd)
      r == readFixedResponse(w.t, 13)
  IN  IF w.panic THEN Panic(w.t)
      ELSE IF w.err # ErrNil THEN Result(w.t, w.err)
      ELSE IF r.panic THEN Panic(r.t)
      ELSE IF r.err # ErrNil THEN Result(r.t, r.err)
      ELSE Result(r.t, statusCheck(Slice(r.res, 9, 10)))

\* ScanCommit with the configuration stored before the status is looked at
ScanCommitEarly(t, statusCode, new) ==
  LET err == statusCheck(statusCode)
  IN  [Result(t, err) EXCEPT !.conf = new, !.started = err = ErrNil]

\* lines 194-207 of MDMSCmd, 250-262 of GDGSCommand: the status check and
\* the assignment of the scan configuration
ScanCommit(t, statusCode, new) ==
  LET err == statusCheck(statusCode)
  IN  IF err # ErrNil
        THEN Result(t, err)
        ELSE [Result(t, ErrNil) EXCEPT !.conf = new, !.started = TRUE]

\* a scan-start that sends the trailing string as it is
TruncNone(characters) == characters

Trunc16(characters) ==
  IF Len(characters) > 16 THEN Slice(characters, 0, 16) ELSE characters

MDMSFrame(three, ss0, es0, cc0, si0, ns0, characters) ==
  <<mTag, IF three THEN threeEncoding ELSE twoEncoding>> \o
  zeroPadString(4, Itoa(ss0)) \o zeroPadString(4, Itoa(es0)) \o
  zeroPadString(2, Itoa(cc0)) \o zeroPadString(1, Itoa(si0)) \o
  zeroPadString(2, Itoa(ns0)) \o Trunc16(characters) \o <<lf>>

MDMSCmd(t, three, ss0, es0, cc0, si0, ns0, characters) ==
  LET cmd == MDMSFrame(three, ss0, es0, cc0, si0, ns0, characters)
      w == sendCommandBlock(t, cmd)
      headLen == 21 + Len(Trunc16(characters))
      r == readFixedResponse(w.t, headLen)
  IN  IF w.panic THEN Panic(w.t)
      ELSE IF w.err # ErrNil THEN Result(w.t, w.err)
      ELSE IF r.panic THEN Panic(r.t)
      ELSE IF r.err # ErrNil THEN Result(r.t, r.err)
      ELSE ScanCommit(r.t, Slice(r.res, headLen - 5, headLen - 3),
             [startStep |-> ss0, endStep |-> es0, clusterCount |-> cc0,
              scanInterval |-> si0, encodingType |-> threeEncoding,
              headSize |-> headLen, requestTag |-> mTag])

GDGSFrame(three, ss0, es0, cc0, characters) ==
  <<gTag, IF three THEN threeEncoding ELSE twoEncoding>> \o
  zeroPadString(4, Itoa(ss0)) \o zeroPadString(4, Itoa(es0)) \o
  zeroPadString(2, Itoa(cc0)) \o Trunc16(characters) \o <<lf>>

GDGSCommand(t, three, ss0, es0, cc0, characters) ==
  LET cmd == GDGSFrame(three, ss0, es0, cc0, characters)
      w == sendCommandBlock(t, cmd)
      headLen == 18 + Len(Trunc16(characters))
      r == readFixedResponse(w.t, headLen)
  IN  IF w.panic THEN Panic(w.t)
      ELSE IF w.err # ErrNil THEN Result(w.t, w.err)
      ELSE IF r.panic THEN Panic(r.t)
      ELSE IF r.err # ErrNil THEN Result(r.t, r.err)
      ELSE ScanCommit(r.t, Slice(r.res, headLen - 5, headLen - 3),
             [conf EXCEPT !.startStep = ss0, !.endStep = es0,
                          !.clusterCount = cc0, !.encodingType = threeEncoding,
                          !.headSize = headLen, !.requestTag = gTag])

BMCommand(t, chars) ==
  LET cmd == <<bTag, mTag>> \o chars \o <<lf>>
      w == sendCommandBlock(t, cmd)
      resLen == Len(chars) + 8
      r == readFixedResponse(w.t, resLen)
  IN  IF w.panic THEN Panic(w.t)
      ELSE IF w.err # ErrNil THEN Result(w.t, w.err)
      ELSE IF r.panic THEN Panic(r.t)
      ELSE IF r.err # ErrNil THEN Result(r.t, r.err)
      ELSE Result(r.t, statusCheck(Slice(r.res, resLen - 5, resLen - 3)))

QMCommand(t, chars) ==
  LET cmd == <<qTag, tTag>> \o chars \o <<lf>>
      w == sendCommandBlock(t, cmd)
      r == readFixedResponse(w.t, Len(chars) + 8)
  IN  IF w.panic THEN Panic(w.t)
      ELSE IF w.err # ErrNil THEN Result(w.t, w.err)
      ELSE IF r.panic THEN Panic(r.t)
      ELSE Result(r.t, r.err)

RSCommand(t, chars) ==
  LET cmd == <<rTag, sTag>> \o chars \o <<lf>>
      w == sendCommandBlock(t, cmd)
      r == readFixedResponse(w.t, Len(chars) + 8)
  IN  IF w.panic THEN Panic(w.t)
      ELSE IF w.err # ErrNil THEN Result(w.t, w.err)
      ELSE IF r.panic THEN Panic(r.t)
      ELSE Result(r.t, r.err)

\* the switch of TMCommand over the status code
TMStatus(statusCode) ==
  IF statusCode = Code(0, 1) THEN Err("tm", "Invalid Control Code")
  ELSE IF statusCode = Code(0, 2) THEN Err("tm", "Adjust mode on when already on")
  ELSE IF statusCode = Code(0, 3) THEN Err("tm", "Adjust mode off when already off")
  ELSE IF statusCode = Code(0, 4) THEN Err("tm", "Adjust mode off when time requested")
  ELSE ErrNil

\* TMCommand that takes '2' for the time request
TMCommandTwo(t, control, chars) ==
  LET cmd == <<tTag, mTag, control>> \o chars \o <<lf>>
      w == sendCommandBlock(t, cmd)
      r == readFixedResponse(w.t, Len(cmd) + 2)
      head == r.res
      headLen == Len(head)
      serr == TMStatus(Slice(head, headLen - 2, headLen - 1))
      r9 == readFixedResponse(r.t, 9)
      r3 == readFixedResponse(r.t, 3)
  IN  IF w.panic THEN Panic(w.t)
      ELSE IF w.err # ErrNil THEN Result(w.t, w.err)
      ELSE IF r.panic \/ ~SliceOK(head, headLen - 2, headLen - 1) THEN Panic(r.t)
      ELSE IF serr # ErrNil THEN Result(r.t, serr)
      ELSE IF control = 50
        THEN IF r9.panic THEN Panic(r9.t)
             ELSE IF r9.err # ErrNil THEN Result(r9.t, r9.err)
             ELSE [Result(r9.t, ErrNil) EXCEPT !.time = decode(Slice(r9.res, 2, 6))]
        ELSE IF r3.panic THEN Panic(r3.t) ELSE Result(r3.t, r3.err)

TMCommand(t, control, chars) ==
  LET cmd == <<tTag, mTag, control>> \o chars \o <<lf>>
      w == sendCommandBlock(t, cmd)
      r == readFixedResponse(w.t, Len(cmd) + 2)
      head == r.res
      headLen == Len(head)
      serr == TMStatus(Slice(head, headLen - 2, headLen - 1))
      r9 == readFixedResponse(r.t, 9)
      r3 == readFixedResponse(r.t, 3)
  IN  IF w.panic THEN Panic(w.t)
      ELSE IF w.err # ErrNil THEN Result(w.t, w.err)
      ELSE IF r.panic \/ ~SliceOK(head, headLen - 2, headLen - 1) THEN Panic(r.t)
      ELSE IF serr # ErrNil THEN Result(r.t, serr)
      ELSE IF control = 49
        THEN IF r9.panic THEN Panic(r9.t)
             ELSE IF r9.err # ErrNil THEN Result(r9.t, r9.err)
             ELSE [Result(r9.t, ErrNil) EXCEPT !.time = decode(Slice(r9.res, 2, 6))]
        ELSE IF r3.panic THEN Panic(r3.t) ELSE Result(r3.t, r3.err)

SSStatus(statusCode) ==
  IF statusCode = Code(0, 1) THEN Err("ss", "Bit rate has non-numeric value")
  ELSE IF statusCode = Code(0, 2) THEN Err("ss", "Invlaid bit rate")
  ELSE IF statusCode = Code(0, 3)
    THEN Err("ss", "Sensor is already running at defined bit rate")
  ELSE IF statusCode = Code(0, 4) THEN Err("ss", "Not compatible with the sensor model")
  ELSE ErrNil

\* SSCommand that looks at the length of the bit rate after the exchange
SSCommandLate(t, sixCharacterBitRate, chars) ==
  LET cmd == <<sTag, sTag>> \o sixCharacterBitRate \o chars \o <<lf>>
      w == sendCommandBlock(t, cmd)
      r == readFixedResponse(w.t, Len(cmd) + 5)
  IN  IF w.panic THEN Panic(w.t)
      ELSE IF w.err # ErrNil THEN Result(w.t, w.err)
      ELSE IF r.panic THEN Panic(r.t)
      ELSE IF r.err # ErrNil THEN Result(r.t, r.err)
      ELSE IF Len(sixCharacterBitRate) # 6
        THEN Result(r.t, Err("ss", "Invalid bitrate string"))
      ELSE Result(r.t, SSStatus(Slice(r.res, Len(cmd), Len(cmd) + 2)))

SSCommand(t, sixCharacterBitRate, chars) ==
  LET cmd == <<sTag, sTag>> \o sixCharacterBitRate \o chars \o <<lf>>
      w == sendCommandBlock(t, cmd)
      r == readFixedResponse(w.t, Len(cmd) + 5)
  IN  IF Len(sixCharacterBitRate) # 6 THEN Result(t, Err("ss", "Invalid bitrate string"))
      ELSE IF w.panic THEN Panic(w.t)
      ELSE IF w.err # ErrNil THEN Result(w.t, w.err)
      ELSE IF r.panic THEN Panic(r.t)
      ELSE IF r.err # ErrNil THEN Result(r.t, r.err)
      ELSE Result(r.t, SSStatus(Slice(r.res, Len(cmd), Len(cmd) + 2)))

HSStatus(statusCode) ==
  IF statusCode = Code(0, 1) THEN Err("hs", "Parameter error")
  ELSE IF statusCode = Code(0, 2) THEN Err("hs", "Already running in set mode")
  ELSE IF statusCode = Code(0, 3)
    THEN Err("hs", "Incompatible with current sensor model")
  ELSE ErrNil

HSCommand(t, highMode, chars) ==
  LET param == IF highMode THEN 49 ELSE 48
      cmd == <<hTag, sTag, param>> \o chars \o <<lf>>
      w == sendCommandBlock(t, cmd)
      r == readFixedResponse(w.t, Len(cmd) + 5)
  IN  IF w.panic THEN Panic(w.t)
      ELSE IF w.err # ErrNil THEN Result(w.t, w.err)
      ELSE IF r.panic \/ ~SliceOK(r.res, Len(cmd), Len(cmd) + 2) THEN Panic(r.t)
      ELSE Result(r.t, HSStatus(Slice(r.res, Len(cmd), Len(cmd) + 2)))

CRStatus(statusCode) ==
  IF statusCode = Code(0, 1) THEN Err("cr", "Invalid speed ratio")
  ELSE IF statusCode = Code(0, 2) THEN Err("cr", "Speed ratio out of range")
  ELSE IF statusCode = Code(0, 3)
    THEN Err("cr", "Motor is already running at defined speed")
  ELSE IF statusCode = Code(0, 4)
    THEN Err("cr", "Incompatible with current sensor model")
  ELSE ErrNil

CRCommand(t, chars) ==
  LET cmd == <<cTag, rTag, chars[1], chars[2]>> \o chars \o <<lf>>
      w == sendCommandBlock(t, cmd)
      r == readFixedResponse(w.t, Len(cmd) + 6)
  IN  IF Len(chars) < 2 THEN Panic(t)
      ELSE IF w.panic THEN Panic(w.t)
      ELSE IF w.err # ErrNil THEN Result(w.t, w.err)
      ELSE IF r.panic THEN Panic(r.t)
      ELSE IF r.err # ErrNil THEN Result(r.t, r.err)
      ELSE Result(r.t, CRStatus(Slice(r.res, Len(cmd) + 1, Len(cmd) + 3)))

\* ------------------------------------------------------------ sample fetch
\* the loop of lines 587-597 (and 649-659): 66-byte reads until one has "00"
\* at [13:15], the first 64 bytes of each appended to data
RECURSIVE ReadChunks(_, _)
ReadChunks(t, data) ==
  LET r == readFixedResponse(t, 66)
      chungus == r.res
      data1 == data \o Slice(chungus, 0, Len(chungus) - 2)
  IN  IF r.panic \/ r.err # ErrNil
        THEN [panic |-> r.panic, err |-> r.err, t |-> r.t, data |-> data]
        ELSE IF Slice(chungus, 13, 15) = Code(0, 0)
          THEN [panic |-> FALSE, err |-> ErrNil, t |-> r.t, data |-> data1]
          ELSE ReadChunks(r.t, data1)

\* the i-th group of size bytes of data
Group(data, size, i) == SubSeq(data, (i - 1) * size + 1, i * size)

\* lines 608-617: one value per full group of scanSize bytes, in order
Distances(data, scanSize) ==
  [i \in 1..(Len(data) \div scanSize) |-> decode(Group(data, scanSize, i))]

GetDistance(t) ==
  LET resLen == IF requestTag = mTag THEN 16 ELSE headSize - 10
      r1 == readFixedResponse(t, resLen)
      r2 == readFixedResponse(r1.t, 4)
      serr == statusCheck(Slice(r2.res, 0, 2))
      r3 == readFixedResponse(r2.t, 6)
      encodedTime == r3.res
      c == ReadChunks(r3.t, <<>>)
      r5 == readFixedResponse(c.t, 1)
      scanSize == IF encodingType = threeEncoding THEN 3 ELSE 2
  IN  IF r1.panic THEN Panic(r1.t)
      ELSE IF r1.err # ErrNil THEN Result(r1.t, r1.err)
      ELSE IF r2.panic THEN Panic(r2.t)
      ELSE IF r2.err # ErrNil THEN Result(r2.t, r2.err)
      ELSE IF serr # ErrNil THEN Result(r2.t, serr)
      ELSE IF r3.panic \/ ~SliceOK(encodedTime, 0, 4) THEN Panic(r3.t)
      ELSE IF c.panic THEN Panic(c.t)
      ELSE IF c.err # ErrNil THEN Result(c.t, c.err)
      ELSE [Result(r5.t, ErrNil) EXCEPT
              !.isNil = FALSE,
              !.payload = Len(c.data),
              !.distance = Distances(c.data, scanSize),
              !.timestamp = decode(Slice(encodedTime, 0, 4))]

\* GetDistance step by step. Lines 563-584: the echo, the status and the time
\* stamp; `done` says that the call has returned or panicked there
FetchPrelude(t) ==
  LET resLen == IF requestTag = mTag THEN 16 ELSE headSize - 10
      r1 == readFixedResponse(t, resLen)
      r2 == readFixedResponse(r1.t, 4)
      serr == statusCheck(Slice(r2.res, 0, 2))
      r3 == readFixedResponse(r2.t, 6)
      encodedTime == r3.res
  IN  IF r1.panic THEN [done |-> TRUE, o |-> Panic(r1.t)]
      ELSE IF r1.err # ErrNil THEN [done |-> TRUE, o |-> Result(r1.t, r1.err)]
      ELSE IF r2.panic THEN [done |-> TRUE, o |-> Panic(r2.t)]
      ELSE IF r2.err # ErrNil THEN [done |-> TRUE, o |-> Result(r2.t, r2.err)]
      ELSE IF serr # ErrNil THEN [done |-> TRUE, o |-> Result(r2.t, serr)]
      ELSE IF r3.panic \/ ~SliceOK(encodedTime, 0, 4)
        THEN [done |-> TRUE, o |-> Panic(r3.t)]
      ELSE [done |-> FALSE,
            o |-> [Result(r3.t, ErrNil) EXCEPT
                     !.timestamp = decode(Slice(encodedTime, 0, 4))]]

\* one turn of the loop that tests the marker one byte too early
ChunkStepEarly(t, data) ==
  LET r == readFixedResponse(t, 66)
      chungus == r.res
  IN  IF r.panic \/ r.err # ErrNil
        THEN [pc |-> "done", panic |-> r.panic, err |-> r.err, t |-> r.t,
              data |-> data]
        ELSE [pc |-> IF Slice(chungus, 12, 14) = Code(0, 0) THEN "tail" ELSE "chunk",
              panic |-> FALSE, err |-> ErrNil, t |-> r.t,
              data |-> data \o Slice(chungus, 0, Len(chungus) - 2)]

\* lines 588-596: one turn of the loop; pc is where the call goes next
ChunkStep(t, data) ==
  LET r == readFixedResponse(t, 66)
      chungus == r.res
  IN  IF r.panic \/ r.err # ErrNil
        THEN [pc |-> "done", panic |-> r.panic, err |-> r.err, t |-> r.t,
              data |-> data]
        ELSE [pc |-> IF Slice(chungus, 13, 15) = Code(0, 0) THEN "tail" ELSE "chunk",
              panic |-> FALSE, err |-> ErrNil, t |-> r.t,
              data |-> data \o Slice(chungus, 0, Len(chungus) - 2)]

\* lines 663-679: groups of 3 bytes, odd ones distances, even ones intensities
OddGroups(data) ==
  [j \in 1..(((Len(data) \div 3) + 1) \div 2) |-> decode(Group(data, 3, 2 * j - 1))]

EvenGroups(data) ==
  [j \in 1..((Len(data) \div 3) \div 2) |-> decode(Group(data, 3, 2 * j))]

GetDistanceAndIntensity(t) ==
  LET resLen == IF requestTag = 77 THEN headSize ELSE headSize - 10
      r1 == readFixedResponse(t, resLen)
      r2 == readFixedResponse(r1.t, 4)
      serr == statusCheck(Slice(r2.res, 0, 2))
      r3 == readFixedResponse(r2.t, 6)
      c == ReadChunks(r3.t, <<>>)
      r5 == readFixedResponse(c.t, 1)
  IN  IF r1.panic THEN Panic(r1.t)
      ELSE IF r1.err # ErrNil THEN Result(r1.t, r1.err)
      ELSE IF r2.panic THEN Panic(r2.t)
      ELSE IF r2.err # ErrNil THEN Result(r2.t, r2.err)
      ELSE IF serr # ErrNil THEN Result(r2.t, serr)
      ELSE IF r3.panic THEN Panic(r3.t)
      ELSE IF r3.err # ErrNil THEN Result(r3.t, r3.err)
      ELSE IF c.panic THEN Panic(c.t)
      ELSE IF c.err # ErrNil THEN Result(c.t, c.err)
      ELSE [Result(r5.t, ErrNil) EXCEPT
              !.isNil = FALSE,
              !.payload = Len(c.data),
              !.distance = OddGroups(c.data),
              !.intensity = EvenGroups(c.data),
              !.timestamp = decode(Slice(r3.res, 0, 4))]

\* lines 477-486 of PPCommand: one line, byte by byte, the line feed included
RECURSIVE ReadLine(_, _)
ReadLine(t, raw) ==
  LET r == readFixedResponse(t, 1)
  IN  IF r.panic THEN [panic |-> TRUE, err |-> ErrNil, raw |-> <<>>, t |-> r.t]
      ELSE IF r.err # ErrNil
        THEN [panic |-> FALSE, err |-> r.err, raw |-> <<>>, t |-> r.t]
      ELSE IF r.res[1] = lf
        THEN [panic |-> FALSE, err |-> ErrNil, raw |-> Append(raw, lf), t |-> r.t]
      ELSE ReadLine(r.t, Append(raw, r.res[1]))

\* strings.Split(string(raw), ";")[0]
SplitFirst(raw) ==
  LET at == {i \in 1..Len(raw) : raw[i] = 59}
  IN  IF at = {}
        THEN raw
        ELSE SubSeq(raw, 1, (CHOOSE i \in at : \A j \in at : i <= j) - 1)

\* lines 475-491 of PPCommand: the loop over the lines
RECURSIVE InfoLines(_, _, _)
InfoLines(t, left, stray) ==
  IF left = 0
    THEN [Result(t, ErrNil) EXCEPT !.isNil = FALSE, !.lines = stray]
    ELSE LET l == ReadLine(t, <<>>)
         IN  IF l.panic THEN Panic(l.t)
             ELSE IF l.err # ErrNil THEN Result(l.t, l.err)
             ELSE InfoLines(l.t, left - 1,
                            IF l.raw[1] # lf
                              THEN Append(stray, SplitFirst(l.raw))
                              ELSE stray)

\* the body that PPCommand, IICommand and VVCommand share
InfoCommand(t, tag, count, chars) ==
  LET cmd == <<tag, tag>> \o chars \o <<lf>>
      w == sendCommandBlock(t, cmd)
      r == readFixedResponse(w.t, 7 + Len(chars))
  IN  IF w.panic THEN Panic(w.t)
      ELSE IF w.err # ErrNil THEN Result(w.t, w.err)
      ELSE IF r.panic THEN Panic(r.t)
      ELSE IF r.err # ErrNil THEN Result(r.t, r.err)
      ELSE InfoLines(r.t, count, <<>>)

PPCommand(t, chars) == InfoCommand(t, pTag, 6, chars)

IICommand(t, chars) == InfoCommand(t, iTag, 7, chars)

VVCommand(t, chars) == InfoCommand(t, vTag, 5, chars)

\* ------------------------------------------------------------ environment
\* what callers pass and what the device and the line do during one call
Chars == {Rep(65, n) : n \in 0..MaxChars}

\* status codes the device answers: success, a known and an unknown error
Codes == {Code(0, 0), Code(9, 9), Code(0, 5), Code(7, 7)}

\* and one that the commands with their own status table know
CmdCodes == Codes \cup {Code(0, 2)}

Clean(st) == [st |-> st, wr |-> "ok", failAt |-> 0, failMode |-> "short"]

\* a clean exchange with any status, or a status 00 with one fault: a failed
\* write, or a short or failing Read among the first n
Envs(codes, n) ==
  {Clean(st) : st \in codes} \cup
  {[Clean(Code(0, 0)) EXCEPT !.wr = w] : w \in {"short", "err"}} \cup
  {[Clean(Code(0, 0)) EXCEPT !.failAt = k, !.failMode = m] :
     k \in 1..n, m \in {"short", "err"}}

\* the same without a write (sample fetch only reads)
ReadEnvs(n) == {e \in Envs(Codes, n) : e.wr = "ok"}

\* the port of the session during a call: the device's bytes and the faults
Line(e, buf) == Port(serialPort = "open", buf, e.wr, e.failAt, e.failMode)

\* scan requests a caller makes: start, end, cluster, interval, number of scans
ScanArgs ==
  {[ss |-> 10, es |-> 52, cc |-> 1, si |-> 0, ns |-> 1, chars |-> <<>>],
   [ss |-> 1, es |-> 20, cc |-> 2, si |-> 1, ns |-> 0, chars |-> Rep(65, MaxChars)]}

\* the scan of the whole range of the URG-04LX
FullScan ==
  {[ss |-> AMIN, es |-> AMAX, cc |-> 1, si |-> 0, ns |-> 1, chars |-> c] :
     c \in {<<>>, Rep(65, MaxChars)}}

\* one trailing string
OneString == {Rep(65, MaxChars)}

\* one scan request
OneScan == {[ss |-> 10, es |-> 52, cc |-> 1, si |-> 0, ns |-> 1, chars |-> <<>>]}

\* scan requests with the longest trailing strings
LongScan ==
  {[ss |-> 10, es |-> 52, cc |-> 1, si |-> 0, ns |-> 1, chars |-> Rep(65, n)] :
     n \in {0, MaxTrailing - 1, MaxTrailing}}

Rates == {<<48, 49, 57, 50, 48, 48>>, <<49, 57, 50, 48, 48>>}

Controls == {48, 49, 50}

\* the payload byte at position i of a scan: never '0'
PayloadByte(i) == 49 + ((i - 1) % 7)

\* c payload lines of 64 bytes, sum and LF; line mark (if any) has "00" at
\* the bytes 13 and 14
Lines(c, mark) ==
  [i \in 1..(66 * c) |->
     LET l == ((i - 1) \div 66) + 1
         p == (i - 1) % 66
     IN  IF p = 64 THEN 49 + (l % 7)
         ELSE IF p = 65 THEN lf
         ELSE IF l = mark /\ p \in {13, 14} THEN 48
         ELSE PayloadByte(64 * (l - 1) + p + 1)]

\* a last line of n < 64 payload bytes that follow `before` payload bytes
Partial(before, n) ==
  [i \in 1..(n + 2) |->
     IF i <= n THEN PayloadByte(before + i) ELSE IF i = n + 1 THEN 49 ELSE lf]

\* the payload lines of a scan of `total` bytes: full lines, then the rest
WellFormed(total) ==
  Lines(total \div 64, 0) \o
  (IF total % 64 = 0 THEN <<>> ELSE Partial(64 * (total \div 64), total % 64))

\* what the device measures in the scan it runs: samples and bytes per sample
ScanSamples == (endStep - startStep + clusterCount) \div clusterCount

ScanWidth == IF scanFrame[2] = threeEncoding THEN 3 ELSE 2

\* shapes of the payload of one scan response
Shapes ==
  {[kind |-> "marker", n |-> c] : c \in 1..(MaxChunks + 1)} \cup
  {[kind |-> "open", n |-> MaxChunks]} \cup
  (IF scanFrame = <<>> THEN {} ELSE {[kind |-> "exact", n |-> 0]})

ShapeLines(sh) ==
  IF sh.kind = "marker" THEN Lines(sh.n, sh.n)
  ELSE IF sh.kind = "open" THEN Lines(sh.n, 0)
  ELSE WellFormed(ScanSamples * ScanWidth)

TimeField == <<49, 50, 51, 52>>

\* a scan response: the echo of the frame of the scan, status, sum, LF, the
\* time stamp, sum, LF, the payload lines, LF
ScanStream(st, lines) ==
  (IF requestTag = mTag THEN scanFrame
   ELSE Rep(gTag, IF headSize > 10 THEN headSize - 10 ELSE 0)) \o
  st \o <<Sum(st), lf>> \o TimeField \o <<Sum(TimeField), lf>> \o
  lines \o <<lf>>

\* ---------------------------------------------------------------- actions
\* the inputs of a call that the properties speak about
In(e) == [st |-> e.st, wr |-> e.wr, failAt |-> e.failAt, three |-> FALSE,
          chars |-> <<>>, frame |-> <<>>, arg |-> 0,
          shape |-> [kind |-> "none", n |-> 0]]

Called(op, in, o) ==
  [op |-> op, st |-> in.st, wr |-> in.wr, failAt |-> in.failAt,
   three |-> in.three, chars |-> in.chars,
   arg |-> in.arg, shape |-> in.shape,
   panic |-> o.panic, err |-> o.err, scipErr |-> ErrNil,
   reads |-> o.t.reads, writes |-> o.t.writes,
   isNil |-> o.isNil, distance |-> o.distance, intensity |-> o.intensity,
   payload |-> o.payload, timestamp |-> o.timestamp, time |-> o.time,
   lines |-> o.lines, opens |-> 0]

\* the session after a command with outcome o
Apply(op, in, o) ==
  /\ startStep' = o.conf.startStep
  /\ endStep' = o.conf.endStep
  /\ clusterCount' = o.conf.clusterCount
  /\ scanInterval' = o.conf.scanInterval
  /\ encodingType' = o.conf.encodingType
  /\ headSize' = o.conf.headSize
  /\ requestTag' = o.conf.requestTag
  /\ scanFrame' = IF o.started THEN in.frame ELSE scanFrame
  /\ call' = Called(op, in, o)
  /\ UNCHANGED <<serialPort, Connected>>

Init ==
  /\ serialPort = "nil"
  /\ Connected = FALSE
  /\ startStep = 0
  /\ endStep = 0
  /\ clusterCount = 0
  /\ scanInterval = 0
  /\ encodingType = 0
  /\ headSize = 0
  /\ requestTag = 0
  /\ scanFrame = <<>>
  /\ call = Called("NewHokuyoLidar", In(Clean(Code(0, 0))),
                   Result(Port(FALSE, <<>>, "ok", 0, "short"), ErrNil))

\* Connect that returns what scipTwoCmd returned
AfterScipStrict(o) == Result(o.t, o.err)

\* lines 111-115 of Connect: the result of scipTwoCmd is dropped
AfterScip(o) == Result(o.t, ErrNil)

\* the outcome of Connect when it opens no port, after opens calls of Open
Refused(msg, opens) ==
  /\ call' = [Called("Connect", In(Clean(Code(0, 0))),
                     Result(Port(FALSE, <<>>, "ok", 0, "short"),
                            Err("connect", msg)))
                EXCEPT !.opens = opens]
  /\ UNCHANGED <<serialPort, Connected, startStep, endStep, clusterCount,
                 scanInterval, encodingType, headSize, requestTag, scanFrame>>

\* Connect that does not look at the Connected flag before it opens the port
ConnectAgain ==
  \/ /\ Connected
     /\ Refused("Lidar is already connected", 0)
  \/ /\ ~Connected
     /\ Refused("open", 1)
  \/ /\ serialPort' = "open"
     /\ Connected' = TRUE
     /\ UNCHANGED <<startStep, endStep, clusterCount, scanInterval,
                    encodingType, headSize, requestTag, scanFrame>>
     /\ \/ call' = [Called("Connect", In(Clean(Code(0, 0))),
                           Result(Port(TRUE, <<>>, "ok", 0, "short"), ErrNil))
                      EXCEPT !.opens = 1]
        \/ \E e \in Envs(Codes, 1) :
             LET cmd == <<83, 67, 73, 80, 50, 46, 48, lf>>
                 o == scipTwoCmd(Port(TRUE, DeviceReply(cmd, e.st), e.wr,
                                      e.failAt, e.failMode))
             IN  call' = [Called("Connect", [In(e) EXCEPT !.arg = 1],
                                 AfterScip(o))
                            EXCEPT !.scipErr = o.err, !.opens = 1]

Connect ==
  \/ /\ Connected
     /\ Refused("Lidar is already connected", 0)
  \/ /\ ~Connected
     /\ Refused("open", 1)
  \/ /\ ~Connected
     /\ serialPort' = "open"
     /\ Connected' = TRUE
     /\ UNCHANGED <<startStep, endStep, clusterCount, scanInterval,
                    encodingType, headSize, requestTag, scanFrame>>
     /\ \/ call' = [Called("Connect", In(Clean(Code(0, 0))),
                           Result(Port(TRUE, <<>>, "ok", 0, "short"), ErrNil))
                      EXCEPT !.opens = 1]
        \/ \E e \in Envs(Codes, 1) :
             LET cmd == <<83, 67, 73, 80, 50, 46, 48, lf>>
                 o == scipTwoCmd(Port(TRUE, DeviceReply(cmd, e.st), e.wr,
                                      e.failAt, e.failMode))
             IN  call' = [Called("Connect", [In(e) EXCEPT !.arg = 1],
                                 AfterScip(o))
                            EXCEPT !.scipErr = o.err, !.opens = 1]

\* Reset and Close of a nil *serial.Port dereference it: the call panics
Disconnect ==
  \E closeOk \in BOOLEAN :
    LET t == Port(serialPort = "open", <<>>, "ok", 0, "short")
        in == In(Clean(Code(0, 0)))
    IN  /\ UNCHANGED <<serialPort, startStep, endStep, clusterCount,
                       scanInterval, encodingType, headSize, requestTag,
                       scanFrame>>
        /\ IF Connected
             THEN /\ call' = Called("Disconnect", in,
                                Result(t, Err("connect", "Lidar is already connected")))
                  /\ UNCHANGED Connected
             ELSE IF serialPort = "nil"
               THEN /\ call' = Called("Disconnect", in, Panic(t))
                    /\ UNCHANGED Connected
               ELSE IF ~closeOk
                 THEN /\ call' = Called("Disconnect", in, Result(t, Err("close", "")))
                      /\ UNCHANGED Connected
                 ELSE /\ call' = Called("Disconnect", in, Result(t, ErrNil))
                      /\ Connected' = FALSE

MDMSOf(args) ==
  \E three \in BOOLEAN, a \in args, e \in Envs(Codes, 1) :
    LET characters == a.chars
        cmd == MDMSFrame(three, a.ss, a.es, a.cc, a.si, a.ns, characters)
        in == [In(e) EXCEPT !.three = three, !.chars = characters,
                               !.frame = cmd, !.arg = a.ss]
    IN  Apply("MDMSCmd", in,
              MDMSCmd(Line(e, DeviceReply(cmd, e.st)), three,
                      a.ss, a.es, a.cc, a.si, a.ns, characters))

MDMS == MDMSOf(ScanArgs)

MDMSFull == MDMSOf(FullScan)

GDGSOf(args) ==
  \E three \in BOOLEAN, a \in args, e \in Envs(Codes, 1) :
    LET characters == a.chars
        cmd == GDGSFrame(three, a.ss, a.es, a.cc, characters)
        in == [In(e) EXCEPT !.three = three, !.chars = characters,
                               !.frame = cmd, !.arg = a.ss]
    IN  Apply("GDGSCommand", in,
              GDGSCommand(Line(e, DeviceReply(cmd, e.st)), three,
                          a.ss, a.es, a.cc, characters))

GDGS == GDGSOf(ScanArgs)

MDMSLong == MDMSOf(LongScan)

MDMSOne == MDMSOf(OneScan)

GDGSOne == GDGSOf(OneScan)

GDGSLong == GDGSOf(LongScan)

BMOf(strings) ==
  \E chars \in strings, e \in Envs(CmdCodes, 1) :
    Apply("BMCommand", [In(e) EXCEPT !.chars = chars],
          BMCommand(Line(e, DeviceReply(<<bTag, mTag>> \o chars \o <<lf>>, e.st)),
                    chars))

BM == BMOf(Chars)

BMOne == BMOf(OneString)

BMLong == BMOf({a.chars : a \in LongScan})

QMOf(strings) ==
  \E chars \in strings, e \in Envs(CmdCodes, 1) :
    Apply("QMCommand", [In(e) EXCEPT !.chars = chars],
          QMCommand(Line(e, DeviceReply(<<qTag, tTag>> \o chars \o <<lf>>, e.st)),
                    chars))

QM == QMOf(Chars)

QMOne == QMOf(OneString)

RSOf(strings) ==
  \E chars \in strings, e \in Envs(Codes, 1) :
    Apply("RSCommand", [In(e) EXCEPT !.chars = chars],
          RSCommand(Line(e, DeviceReply(<<rTag, sTag>> \o chars \o <<lf>>, e.st)),
                    chars))

RS == RSOf(Chars)

RSOne == RSOf(OneString)

\* the device's answer to TM: the time and its sum follow a time request
TMReply(cmd, control, st) ==
  IF control = 49
    THEN cmd \o st \o <<Sum(st), lf>> \o TimeField \o <<Sum(TimeField), lf, lf>>
    ELSE DeviceReply(cmd, st)

TMOf(strings) ==
  \E control \in Controls, chars \in strings, e \in Envs(CmdCodes, 2) :
    LET cmd == <<tTag, mTag, control>> \o chars \o <<lf>>
    IN  Apply("TMCommand", [In(e) EXCEPT !.chars = chars, !.arg = control],
              TMCommand(Line(e, TMReply(cmd, control, e.st)), control, chars))

TM == TMOf(Chars)

TMOne == TMOf(OneString)

SSOf(strings) ==
  \E rate \in Rates, chars \in strings, e \in Envs(CmdCodes, 1) :
    LET cmd == <<sTag, sTag>> \o rate \o chars \o <<lf>>
    IN  Apply("SSCommand", [In(e) EXCEPT !.chars = chars, !.arg = Len(rate)],
              SSCommand(Line(e, DeviceReply(cmd, e.st)), rate, chars))

SS == SSOf(Chars)

SSOne == SSOf(OneString)

HSOf(strings) ==
  \E highMode \in BOOLEAN, chars \in strings, e \in Envs(CmdCodes, 1) :
    LET cmd == <<hTag, sTag, IF highMode THEN 49 ELSE 48>> \o chars \o <<lf>>
    IN  Apply("HSCommand", [In(e) EXCEPT !.chars = chars, !.three = highMode],
              HSCommand(Line(e, DeviceReply(cmd, e.st)), highMode, chars))

HS == HSOf(Chars)

HSOne == HSOf(OneString)

\* the device's answer to CR; the byte that follows it on the line is there
\* or not (extra)
CROf(strings) ==
  \E chars \in strings, e \in Envs(CmdCodes, 1), extra \in 0..1 :
    LET cmd == IF Len(chars) < 2 THEN <<cTag, rTag>> \o chars \o <<lf>>
               ELSE <<cTag, rTag, chars[1], chars[2]>> \o chars \o <<lf>>
    IN  Apply("CRCommand", [In(e) EXCEPT !.chars = chars, !.arg = extra],
              CRCommand(Line(e, DeviceReply(cmd, e.st) \o Rep(lf, extra)), chars))

CR == CROf(Chars)

CROne == CROf(OneString)

\* the lines the device answers an informational command with: line i is
\* "A:1;S" with the letter and digit of i, but the line at position `at` is
\* of another kind: without a ';', blank, or with nothing before the ';'
InfoKinds == {"bare", "blank", "empty"}

InfoLine(i, kind) ==
  CASE kind = "full" -> <<64 + i, 58, 48 + i, 59, 83, lf>>
    [] kind = "bare" -> <<64 + i, 58, 48 + i, lf>>
    [] kind = "blank" -> <<lf>>
    [] kind = "empty" -> <<59, 83, lf>>

InfoScript(kind, n, at) ==
  [i \in 1..n |-> InfoLine(i, IF i = at THEN kind ELSE "full")]

RECURSIVE Flat(_)
Flat(lines) == IF lines = <<>> THEN <<>> ELSE Head(lines) \o Flat(Tail(lines))

\* the answer: echo, status, sum, LF, the lines, and the LF that ends it
InfoReply(cmd, st, script) ==
  cmd \o st \o <<Sum(st), lf>> \o Flat(script) \o <<lf>>

\* the device sends the lines the command waits for or one less, and the
\* line faults hit the exchange of well-formed lines only
InfoWith(op, tag, count, strings, ns, kinds) ==
  \E chars \in strings, n \in ns :
    LET cmd == <<tag, tag>> \o chars \o <<lf>>
    IN  \/ \E kind \in kinds, at \in 1..n :
             LET e == Clean(Code(0, 0))
                 in == [In(e) EXCEPT !.chars = chars, !.arg = at,
                                     !.shape = [kind |-> kind, n |-> n]]
             IN  Apply(op, in,
                       InfoCommand(Line(e, InfoReply(cmd, e.st, InfoScript(kind, n, at))),
                                   tag, count, chars))
        \/ \E e \in Envs(Codes, 3) :
             LET in == [In(e) EXCEPT !.chars = chars,
                                     !.shape = [kind |-> "full", n |-> n]]
             IN  Apply(op, in,
                       InfoCommand(Line(e, InfoReply(cmd, e.st, InfoScript("full", n, 0))),
                                   tag, count, chars))

InfoOf(op, tag, count) ==
  InfoWith(op, tag, count, {<<>>, Rep(65, MaxChars)}, {count - 1, count}, InfoKinds)

\* the same with one string, every line sent and one of them blank
InfoOne(op, tag, count) ==
  InfoWith(op, tag, count, OneString, {count}, {"blank"})

PP == InfoOf("PPCommand", pTag, 6)

PPOne == InfoOne("PPCommand", pTag, 6)

IIOne == InfoOne("IICommand", iTag, 7)

VVOne == InfoOne("VVCommand", vTag, 5)

II == InfoOf("IICommand", iTag, 7)

VV == InfoOf("VVCommand", vTag, 5)

Fetch ==
  \E sh \in Shapes :
    LET lines == ShapeLines(sh)
    IN  \E e \in ReadEnvs(MaxFailAt) :
          Apply("GetDistance", [In(e) EXCEPT !.shape = sh],
                GetDistance(Line(e, ScanStream(e.st, lines))))

FetchBoth ==
  \E sh \in Shapes :
    LET lines == ShapeLines(sh)
    IN  \E e \in ReadEnvs(MaxFailAt) :
          Apply("GetDistanceAndIntensity", [In(e) EXCEPT !.shape = sh],
                GetDistanceAndIntensity(Line(e, ScanStream(e.st, lines))))

\* sessions that start scans and fetch samples
Next ==
  \/ Connect
  \/ Disconnect
  \/ MDMS
  \/ GDGS
  \/ RS
  \/ Fetch

Spec == Init /\ [][Next]_vars

\* sessions that fetch distances and intensities
NextBoth ==
  \/ Connect
  \/ MDMS
  \/ GDGS
  \/ FetchBoth

SpecBoth == Init /\ [][NextBoth]_vars

\* sessions that send the commands with a status reply
NextCmd ==
  \/ Connect
  \/ BM
  \/ QM
  \/ RS
  \/ TM
  \/ SS
  \/ HS
  \/ CR

SpecCmd == Init /\ [][NextCmd]_vars

\* scan-starts and a laser-on with long trailing strings
NextLong == Connect \/ MDMSLong \/ GDGSLong \/ BMLong

SpecLong == Init /\ [][NextLong]_vars

\* sessions that ask for the informational lines
NextInfo == Connect \/ PP \/ II \/ VV

SpecInfo == Init /\ [][NextInfo]_vars

\* sessions that send every command, each with one trailing string
NextAll ==
  \/ Connect
  \/ MDMSOne
  \/ GDGSOne
  \/ BMOne
  \/ QMOne
  \/ RSOne
  \/ TMOne
  \/ SSOne
  \/ HSOne
  \/ CROne
  \/ PPOne
  \/ IIOne
  \/ VVOne

SpecAll == Init /\ [][NextAll]_vars

\* sessions that scan the whole range
NextFull ==
  \/ Connect
  \/ MDMSFull
  \/ Fetch

SpecFull == Init /\ [][NextFull]_vars

\* ------------------------------------------------ the functions on their own
\* a session as NewHokuyoLidar leaves it
Idle ==
  /\ serialPort = "nil"
  /\ Connected = FALSE
  /\ startStep = 0
  /\ endStep = 0
  /\ clusterCount = 0
  /\ scanInterval = 0
  /\ encodingType = 0
  /\ headSize = 0
  /\ requestTag = 0
  /\ scanFrame = <<>>

Session == <<serialPort, Connected, startStep, endStep, clusterCount,
             scanInterval, encodingType, headSize, requestTag, scanFrame>>

\* an argument that waits for its function: a status code, a string, a number
Given(op, st, chars, arg) ==
  Called(op, [In(Clean(st)) EXCEPT !.chars = chars, !.arg = arg],
         Result(Port(FALSE, <<>>, "ok", 0, "short"), ErrNil))

\* statusCheck on every code of two digits
InitStatus ==
  /\ Idle
  /\ \E a \in 0..MaxDigit, b \in 0..MaxDigit :
       call = Given("code", Code(a, b), <<>>, 0)

Classify ==
  /\ call.op = "code"
  /\ call' = [call EXCEPT !.op = "statusCheck", !.err = statusCheck(call.st)]
  /\ UNCHANGED Session

NextStatus == Classify

SpecStatus == InitStatus /\ [][NextStatus]_vars

\* zeroPadString on the numbers MDMSCmd and the tests format, on the empty
\* string and on runs of one digit, for every width
PadStrings ==
  {Itoa(n) : n \in {0, 7, 10, 44, 725, 1000, 12345, 413921, 555555}} \cup
  {Rep(53, n) : n \in 0..MaxRun}

InitPad ==
  /\ Idle
  /\ \E str \in PadStrings, desiredLen \in 0..MaxWidth :
       call = Given("string", Code(0, 0), str, desiredLen)

Pad ==
  /\ call.op = "string"
  /\ call' = [call EXCEPT !.op = "zeroPadString",
                          !.payload = zeroPadString(call.arg, call.chars)]
  /\ UNCHANGED Session

NextPad == Pad

SpecPad == InitPad /\ [][NextPad]_vars

\* the n characters of v, six bits each, as the device sends them
Encode(v, n) == [i \in 1..n |-> 48 + ((v \div (64 ^ (n - i))) % 64)]

\* decode on every value of two characters, on the values of three characters
\* made of these six-bit digits, and on the bytes of TestDecode
Sextets == {0, 1, 21, 42, 62, 63}

Encoded ==
  {Encode(v, 2) : v \in 0..(64 * 64 - 1)} \cup
  {Encode(a * 64 * 64 + b * 64 + c, 3) : a \in Sextets, b \in Sextets, c \in Sextets} \cup
  {<<109, 50, 64, 48>>, <<>>, <<47>>, <<49, 127>>}

InitDecode ==
  /\ Idle
  /\ \E encoded \in Encoded : call = Given("bytes", Code(0, 0), encoded, 0)

Decode ==
  /\ call.op = "bytes"
  /\ call' = [call EXCEPT !.op = "decode", !.time = decode(call.chars)]
  /\ UNCHANGED Session

NextDecode == Decode

SpecDecode == InitDecode /\ [][NextDecode]_vars

\* ------------------------------------------------ sample fetch in steps
\* GetDistance as the steps of its caller: the call is at its chunk loop
\* ("chunk"), at the read of the last byte ("tail"), or has returned
InFetch == "pc" \in DOMAIN call /\ call.pc \in {"chunk", "tail"}

\* the port at the next Read of a running call: the device has buf ready
Resumed(buf, fault) ==
  [Port(TRUE, buf, "ok",
        IF fault = "none" THEN 0 ELSE Len(call.reads) + 1,
        IF fault = "err" THEN "err" ELSE "short")
     EXCEPT !.reads = call.reads]

FetchBegin ==
  /\ ~InFetch
  /\ \E st \in Codes :
       LET e == Clean(st)
           b == FetchPrelude(Line(e, ScanStream(st, <<>>)))
       IN  call' = [pc |-> IF b.done THEN "done" ELSE "chunk", data |-> <<>>] @@
                   Called("GetDistance", In(e), b.o)
  /\ UNCHANGED Session

\* what the device has ready when the loop reads: a line without the marker
\* (at most MaxChunks of them), a line with it, or a read that fails
ChunkKinds == {"plain", "marker", "short", "err"}

FetchChunk ==
  /\ InFetch
  /\ call.pc = "chunk"
  /\ \E kind \in ChunkKinds :
       /\ kind = "plain" => Len(call.data) < 64 * MaxChunks
       /\ LET fault == IF kind \in {"short", "err"} THEN kind ELSE "none"
               line == Lines(1, IF kind = "marker" THEN 1 ELSE 0)
               c == ChunkStep(Resumed(line, fault), call.data)
           IN  call' = [call EXCEPT !.pc = c.pc, !.data = c.data,
                                    !.payload = Len(c.data),
                                    !.panic = c.panic, !.err = c.err,
                                    !.reads = c.t.reads,
                                    !.shape = [kind |-> kind, n |-> 1]]
  /\ UNCHANGED Session

\* lines 599-618: the last byte, whose read is not looked at, and the values
FetchTail ==
  /\ InFetch
  /\ call.pc = "tail"
  /\ \E fault \in {"none", "short", "err"} :
       LET r5 == readFixedResponse(Resumed(<<lf>>, fault), 1)
           scanSize == IF encodingType = threeEncoding THEN 3 ELSE 2
       IN  call' = [call EXCEPT !.pc = "done", !.reads = r5.t.reads,
                                !.isNil = FALSE,
                                !.distance = Distances(call.data, scanSize),
                                !.shape = [kind |-> fault, n |-> 0]]
  /\ UNCHANGED Session

\* sessions whose GetDistance runs step by step; the caller waits for it, and
\* a Read that is under way returns
NextLoop ==
  \/ ~InFetch /\ Connect
  \/ ~InFetch /\ MDMS
  \/ FetchBegin
  \/ FetchChunk
  \/ FetchTail

SpecLoop ==
  Init /\ [][NextLoop]_vars /\ WF_vars(FetchChunk) /\ WF_vars(FetchTail)

TypeOK ==
  /\ serialPort \in {"nil", "open"}
  /\ Connected \in BOOLEAN
  /\ (Connected <=> serialPort = "open")

\* ------------------------------------------------------------- properties
Success == {Code(0, 0), Code(9, 9)}

\* the last call met no injected fault
CleanCall == call.wr = "ok" /\ call.failAt = 0

Returned == ~call.panic

ScanStartOps == {"MDMSCmd", "GDGSCommand"}

\* C1: GetDistance on a session on which no scan-start ever succeeded returns
\* an error and does no transport read or write.
C1_FetchBeforeScanStartIsError ==
  (call.op = "GetDistance" /\ Connected /\ scanFrame = <<>>) =>
    (Returned /\ call.err # ErrNil /\ call.reads = <<>> /\ call.writes = <<>>)

\* C2: whenever a transport read inside GetDistance fails or comes back
\* short, GetDistance returns a non-nil error and no distances.
C2_FailedReadIsError ==
  (call.op = "GetDistance" /\ \E i \in DOMAIN call.reads : ~call.reads[i].ok) =>
    (Returned /\ call.err # ErrNil /\ call.isNil)

\* C3: Disconnect on a connected session returns no error and leaves the
\* session disconnected.
C3_DisconnectLeavesDisconnected ==
  [][(Connected /\ call'.op = "Disconnect") =>
       (~call'.panic /\ call'.err = ErrNil /\ ~Connected')]_vars

\* C4: after a scan-start that succeeded the stored encoding is the one that
\* was requested: two-character for three = false, three-character for true.
C4_EncodingIsTheRequestedOne ==
  (call.op \in ScanStartOps /\ Returned /\ call.err = ErrNil) =>
    encodingType = (IF call.three THEN threeEncoding ELSE twoEncoding)

\* C5: a scan-start whose response carries a status that is not Success
\* returns the mapped status error and leaves every field of the scan
\* configuration as it was before the call.
C5_FailedScanStartKeepsConf ==
  [][(/\ call'.op \in ScanStartOps
      /\ call'.wr = "ok"
      /\ Len(call'.reads) = 1
      /\ call'.reads[1].ok
      /\ call'.st \notin Success) =>
       (/\ ~call'.panic
        /\ call'.err = statusCheck(call'.st)
        /\ call'.err.kind \in {"known", "unknown"}
        /\ conf' = conf)]_vars

\* a scan-start has been refused with a status error while another scan
\* configuration was stored
C5_Witness ==
  /\ call.op \in ScanStartOps
  /\ call.st = Code(0, 5)
  /\ call.err.kind = "known"
  /\ headSize > 0
  /\ call.arg # startStep

\* C6: after MDMSCmd(true, 44, 725, 1, 0, 1, "") against a success status and
\* a well-formed payload of 682 three-byte samples, the header length is 21
\* and GetDistance returns 682 distances with no error.
C6_FullScanIsFetched ==
  (/\ call.op = "GetDistance"
   /\ scanFrame = MDMSFrame(TRUE, AMIN, AMAX, 1, 0, 1, <<>>)
   /\ call.shape.kind = "exact"
   /\ call.st \in Success
   /\ CleanCall) =>
    (/\ headSize = 21
     /\ Returned
     /\ call.err = ErrNil
     /\ Len(call.distance) = AMAX - AMIN + 1)

\* C7: for N full 64-byte lines of which the last carries the "00" marker,
\* N * 64 a multiple of the bytes per sample of the scan, GetDistance returns
\* N * 64 / bytes_per_sample samples and leaves no payload byte undecoded.
C7_SampleCountOfMarkedPayload ==
  (/\ call.op = "GetDistance"
   /\ requestTag = mTag
   /\ headSize = 21
   /\ call.shape.kind = "marker"
   /\ (call.shape.n * 64) % ScanWidth = 0
   /\ call.st \in Success
   /\ CleanCall) =>
    (/\ Returned
     /\ call.err = ErrNil
     /\ Len(call.distance) = (call.shape.n * 64) \div ScanWidth
     /\ call.payload % ScanWidth = 0)

StatusOps == {"BMCommand", "QMCommand", "RSCommand", "TMCommand", "SSCommand",
              "HSCommand", "CRCommand"}

\* C8: a command with a status in its response returns an error when the
\* device answers with a status that is not Success.
C8_StatusErrorIsReturned ==
  (/\ call.op \in StatusOps
   /\ Returned
   /\ CleanCall
   /\ call.st \notin Success) =>
    call.err # ErrNil

\* C9: after a reset that succeeded no scan configuration is active.
C9_ResetClearsScan ==
  (call.op = "RSCommand" /\ Returned /\ call.err = ErrNil) =>
    (requestTag = 0 /\ headSize = 0 /\ encodingType = 0)

\* C10: scipTwoCmd reads exactly 13 bytes and returns nil whenever the status
\* in them is "00"; it returns an error only for another status or a failure
\* of the transport.
C10_ScipTwoAcceptsSuccess ==
  (call.op = "Connect" /\ call.arg = 1 /\ CleanCall) =>
    (/\ call.reads = <<[size |-> 13, n |-> 13, ok |-> TRUE]>>
     /\ (call.st = Code(0, 0) => call.scipErr = ErrNil)
     /\ (call.scipErr # ErrNil => call.st # Code(0, 0)))

\* C11: statusCheck returns nil for exactly "00" and "99", a known error with
\* the code and its description for the other codes of the table, an unknown
\* error with the raw code for the codes that the table does not have.
C11_StatusClassification ==
  call.op = "statusCheck" =>
    /\ (call.err = ErrNil) <=> (call.st \in {Code(0, 0), Code(9, 9)})
    /\ (call.st \in DOMAIN healthStatus /\ call.st # Code(0, 0)) =>
         (/\ call.err.kind = "known"
          /\ call.err.code = call.st
          /\ call.err.msg = healthStatus[call.st])
    /\ (call.st \notin DOMAIN healthStatus /\ call.st # Code(9, 9)) =>
         (call.err.kind = "unknown" /\ call.err.code = call.st)
    /\ (call.st = Code(0, 5)) =>
         call.err.msg = "End Step is smaller than Starting Step"
    /\ (call.st = Code(7, 7)) =>
         call.err = [kind |-> "unknown", code |-> <<55, 55>>, msg |-> ""]

\* "05" has been classified as a known error
C11_Witness ==
  call.op = "statusCheck" /\ call.st = Code(0, 5) /\ call.err.kind = "known"

\* C12: MDMSCmd reads exactly 21 + L bytes and GDGSCommand 18 + L, L the
\* length of the trailing string cut to 16; the status is the two bytes at
\* [H-5, H-3) of that header, where the device puts it, and H is the header
\* length that the scan configuration keeps.
C12_HeaderLength ==
  (call.op \in ScanStartOps /\ call.wr = "ok" /\ ~call.panic) =>
    LET L == Min(Len(call.chars), 16)
        H == (IF call.op = "MDMSCmd" THEN 21 ELSE 18) + L
    IN  /\ Len(call.reads) = 1
        /\ call.reads[1].size = H
        /\ call.reads[1].ok => call.err = statusCheck(call.st)
        /\ call.err = ErrNil => headSize = H

\* a scan-start with a trailing string of more than 16 characters succeeded
C12_Witness ==
  /\ call.op = "MDMSCmd"
  /\ Len(call.chars) > 16
  /\ call.err = ErrNil
  /\ ~call.panic
  /\ headSize = 37

\* C13: zeroPadString(w, s) leaves exactly w characters: a shorter s gets
\* zeros on its left, an s of length w stays, a longer s is cut to its first w
\* characters; "10",4 gives "0010", "555555",4 gives "5555", "413921",8
\* gives "00413921".
C13_ZeroPad ==
  call.op = "zeroPadString" =>
    LET s == call.chars
        w == call.arg
        r == call.payload
    IN  /\ Len(r) = w
        /\ Len(s) <= w =>
             \A i \in 1..w :
               r[i] = IF i <= w - Len(s) THEN 48 ELSE s[i - (w - Len(s))]
        /\ Len(s) = w => r = s
        /\ Len(s) > w => \A i \in 1..w : r[i] = s[i]
        /\ (s = <<49, 48>> /\ w = 4) => r = <<48, 48, 49, 48>>
        /\ (s = <<53, 53, 53, 53, 53, 53>> /\ w = 4) => r = <<53, 53, 53, 53>>
        /\ (s = <<52, 49, 51, 57, 50, 49>> /\ w = 8) =>
             r = <<48, 48, 52, 49, 51, 57, 50, 49>>

\* "10" has been padded to four characters
C13_Witness ==
  /\ call.op = "zeroPadString"
  /\ call.chars = <<49, 48>>
  /\ call.arg = 4
  /\ call.payload = <<48, 48, 49, 48>>

\* the value that n six-bit characters spell
Spelled(s) ==
  LET RECURSIVE val(_, _)
      val(acc, i) == IF i > Len(s) THEN acc ELSE val(acc * 64 + (s[i] - 48), i + 1)
  IN  val(0, 1)

\* C14: decode folds its bytes as value = (value << 6) | (byte - 0x30): the
\* two characters of every v in 0..4095 and the three characters of a v in
\* 0..262143 decode to v, and decode([0x6D,0x32,0x40,0x30]) = 16000000.
C14_DecodeRoundTrip ==
  call.op = "decode" =>
    /\ \A v \in 0..4095 : call.chars = Encode(v, 2) => call.time = v
    /\ (Len(call.chars) = 3 /\ \A i \in 1..3 : call.chars[i] \in 48..111) =>
         (/\ call.time = Spelled(call.chars)
          /\ call.time \in 0..262143
          /\ call.chars = Encode(call.time, 3))
    /\ call.chars = <<109, 50, 64, 48>> => call.time = 16000000
    /\ call.chars = <<>> => call.time = 0

\* the largest value of three characters has been decoded
C14_Witness ==
  /\ call.op = "decode"
  /\ call.chars = <<111, 111, 111>>
  /\ call.time = 262143

\* the bytes of tag and parameters that a frame starts with
FixedLen == [MDMSCmd |-> 15, GDGSCommand |-> 12, BMCommand |-> 2]

\* C15: every frame written is tag, parameter fields, at most 16 bytes of
\* the caller's trailing string (the first 16 of a longer one) and one 0x0A
\* as its last byte.
C15_FrameTrailing ==
  (call.op \in DOMAIN FixedLen /\ call.writes # <<>>) =>
    LET frame == call.writes[1].frame
        trailing == IF Len(call.chars) > 16
                      THEN SubSeq(call.chars, 1, 16) ELSE call.chars
        fixed == FixedLen[call.op]
    IN  /\ Len(call.writes) = 1
        /\ Len(frame) = fixed + Len(trailing) + 1
        /\ SubSeq(frame, fixed + 1, Len(frame)) = trailing \o <<lf>>
        /\ \A i \in 1..(Len(frame) - 1) : frame[i] # lf

InfoCount == [PPCommand |-> 6, IICommand |-> 7, VVCommand |-> 5]

\* the lines of the answer that the command consumes, the last LF among them
InfoSent ==
  LET script == InfoScript(call.shape.kind, call.shape.n, call.arg) \o <<<<lf>>>>
  IN  SubSeq(script, 1, Min(Len(script), InfoCount[call.op]))

\* a line without its terminator, up to its first ';'
InfoEntry(line) ==
  LET body == SubSeq(line, 1, Len(line) - 1)
      at == {i \in 1..Len(body) : body[i] = 59}
  IN  IF at = {} THEN body
      ELSE SubSeq(body, 1, (CHOOSE i \in at : \A j \in at : i <= j) - 1)

RECURSIVE InfoEntries(_)
InfoEntries(lines) ==
  IF lines = <<>> THEN <<>>
  ELSE IF Head(lines) = <<lf>> THEN InfoEntries(Tail(lines))
  ELSE <<InfoEntry(Head(lines))>> \o InfoEntries(Tail(lines))

\* C16: PPCommand, IICommand and VVCommand return the lines in the order they
\* were sent, at most 6, 7 and 5 of them; an entry is the part of its line
\* before the first ';' and never holds the line feed, and a line that is
\* only a line feed gives no entry.
C16_InfoLines ==
  (call.op \in DOMAIN InfoCount /\ ~call.panic /\ call.err = ErrNil) =>
    /\ Len(call.lines) <= InfoCount[call.op]
    /\ \A i \in 1..Len(call.lines) :
         \A j \in 1..Len(call.lines[i]) : call.lines[i][j] # lf
    /\ call.lines = InfoEntries(InfoSent)

\* a TMCommand that was answered with a success status and whose header
\* read came back whole
TMHeaderRead ==
  /\ call.op = "TMCommand"
  /\ call.st \in Success
  /\ ~call.panic
  /\ call.reads # <<>>
  /\ call.reads[1].ok

C18_BadBitRateIsRejected ==
  (call.op = "SSCommand" /\ call.arg # 6) =>
    /\ ~call.panic
    /\ call.err # ErrNil
    /\ call.writes = <<>>
    /\ call.reads = <<>>

\* a connected session was asked for the bit rate "19200"
C18_Witness ==
  /\ call.op = "SSCommand"
  /\ call.arg = 5
  /\ Connected
  /\ call.err = Err("ss", "Invalid bitrate string")
  /\ call.writes = <<>>

\* C19: Connect on a session that is Connected returns an error, does not
\* open the transport again and leaves the port handle and the Connected flag
\* as they are; the transport is opened from the disconnected state only.
C19_ConnectWhenConnected ==
  [][(call'.op = "Connect") =>
       /\ Connected =>
            (/\ call'.err # ErrNil
             /\ ~call'.panic
             /\ call'.opens = 0
             /\ call'.writes = <<>>
             /\ serialPort' = serialPort
             /\ Connected' = Connected)
       /\ call'.opens > 0 => ~Connected]_vars

\* Connect was refused on a connected session
C19_Witness ==
  /\ call.op = "Connect"
  /\ Connected
  /\ serialPort = "open"
  /\ call.err = Err("connect", "Lidar is already connected")
  /\ call.opens = 0

LastRead(c) == c.reads[Len(c.reads)]

\* C21: GetDistance keeps reading 66-byte chunks and appends the first 64
\* bytes of each until the first chunk whose marker is "00"; it then reads
\* exactly one more byte and returns; it reads no chunk after the marker chunk
\* and it ends once a marker chunk was delivered or a read failed.
C21_ChunkLoop ==
  /\ [][InFetch =>
          /\ Len(call'.reads) = Len(call.reads) + 1
          /\ call.pc = "chunk" =>
               (/\ LastRead(call').size = 66
                /\ LastRead(call').ok =>
                     (/\ call'.data =
                           call.data \o
                           SubSeq(Lines(1, IF call'.shape.kind = "marker" THEN 1 ELSE 0),
                                  1, 64)
                      /\ call'.pc = IF call'.shape.kind = "marker"
                                      THEN "tail" ELSE "chunk")
                /\ ~LastRead(call').ok =>
                     (/\ call'.pc = "done"
                      /\ call'.err # ErrNil
                      /\ call'.isNil))
          /\ call.pc = "tail" =>
               (/\ LastRead(call').size = 1
                /\ call'.pc = "done"
                /\ call'.err = ErrNil
                /\ ~call'.isNil
                /\ call'.payload = Len(call.data))]_vars
  /\ (InFetch ~> ~InFetch)

\* a fetch has returned after a chunk without and a chunk with the marker
C21_Witness ==
  /\ "pc" \in DOMAIN call
  /\ call.pc = "done"
  /\ call.err = ErrNil
  /\ ~call.isNil
  /\ call.payload = 128
  /\ Len(call.reads) = 6
  /\ call.reads[6].size = 1

FetchOps == {"GetDistance", "GetDistanceAndIntensity"}

\* C22: when the status of the scan response is not Success, GetDistance and
\* GetDistanceAndIntensity return the error mapped to it at once: after the 4
\* status bytes they read no time stamp and no payload chunk.
C22_ErrorStatusEndsFetch ==
  (/\ call.op \in FetchOps
   /\ CleanCall
   /\ call.st \notin Success
   /\ Len(call.reads) >= 2
   /\ call.reads[2].ok) =>
    /\ Returned
    /\ call.err = statusCheck(call.st)
    /\ call.isNil
    /\ Len(call.reads) = 2
    /\ call.reads[2].size = 4

CommandOps ==
  {"MDMSCmd", "GDGSCommand", "BMCommand", "QMCommand", "RSCommand", "TMCommand",
   "SSCommand", "HSCommand", "CRCommand", "PPCommand", "IICommand", "VVCommand"}

\* C23: every command operation writes its whole frame exactly once before
\* its first read; when the transport takes fewer bytes than the frame has or
\* reports a write error, the operation returns an error and reads nothing.
C23_WriteOnceBeforeRead ==
  call.op \in CommandOps =>
    /\ Len(call.writes) <= 1
    /\ call.reads # <<>> =>
         (/\ Len(call.writes) = 1
          /\ call.writes[1].n = Len(call.writes[1].frame)
          /\ call.writes[1].reads = 0
          /\ call.wr = "ok")
    /\ (call.writes # <<>> /\ call.wr # "ok") =>
         (/\ ~call.panic
          /\ call.err # ErrNil
          /\ call.reads = <<>>)

\* the port took one byte less than the frame of a reset, which then read
\* nothing
C23_Witness ==
  /\ call.op = "RSCommand"
  /\ call.wr = "short"
  /\ Len(call.writes) = 1
  /\ call.writes[1].n = Len(call.writes[1].frame) - 1
  /\ call.err = Err("write", "Failed to send all request bytes")
  /\ call.reads = <<>>

\* C24: Connect(scip1IsDefault = true) returns nil and leaves Connected true
\* whenever the port opens, whatever scipTwoCmd met: a failed write, a short
\* or failed read, an error status.
C24_ScipOutcomeIsDropped ==
  (call.op = "Connect" /\ call.arg = 1) =>
    /\ call.opens = 1
    /\ ~call.panic
    /\ call.err = ErrNil
    /\ Connected
    /\ serialPort = "open"

\* the port took the frame of the switch short, and Connect returned nil
C24_Witness ==
  /\ call.op = "Connect"
  /\ call.arg = 1
  /\ call.wr = "short"
  /\ call.scipErr = Err("write", "Failed to send all request bytes")
  /\ call.err = ErrNil
  /\ Connected

====
